---- MODULE Spec2Model ----
(***************************************************************************)
(* Model of the feature-engineering pipeline of ds_salaries_predict        *)
(* (src/src/ds_salaries_predict/preprocess.py): clean_data,                *)
(* process_categoricals, preprocess_country, preprocess_numbers,           *)
(* TfidfVectorizer.fit, preprocess_title, composed by preprocess_data.     *)
(*                                                                         *)
(* A DataFrame is [columns : Seq(column name), rows : Seq([label, cells])].*)
(* label is the row's pandas index label, cells maps each column name to a *)
(* value.  A column name is a pair <<base, suffix>> ("employment_type_PT"  *)
(* is <<"employment_type", "PT">>, a base column has suffix "").  A value  *)
(* is a tagged pair: <<"str", s>>, <<"int", n>>, <<"float", n>> (a float   *)
(* holding the whole number n), <<"text", words>> (a job title),           *)
(* <<"tfidf", <<tf, df, n>>>> (a TF-IDF weight, kept as the counts it is   *)
(* computed from) and <<"nan", 0>> (a missing value).                      *)
(***************************************************************************)
EXTENDS Integers, Sequences, FiniteSets, TLC

VARIABLES
    callerData,   \* the DataFrame object the caller passed as `data`
    callerGdp,    \* the DataFrame object the caller passed as `gdp_data`
    local,        \* the DataFrame object created by the pipeline's last copying step
    dataRef,      \* which object the local name `data` is bound to: "caller" or "local"
    vectorizer,   \* the fitted TfidfVectorizer, or NoVectorizer
    result,       \* what preprocess_data returned, or NoFrame
    pc,           \* the next statement of preprocess_data, "done" or "failed"
    err,          \* the exception that left preprocess_data, or "none"
    orig,         \* history: callerData at the call
    origGdp,      \* history: callerGdp at the call
    cleaned       \* history: the value clean_data returned

vars == <<callerData, callerGdp, local, dataRef, vectorizer, result, pc, err,
          orig, origGdp, cleaned>>

----------------------------------------------------------------------------
(* Bounds of the model *)

MaxRows == 3

MaxWinsorLen == 201

MaxStride == 3

----------------------------------------------------------------------------
(* Values *)

S(s) == <<"str", s>>

N(n) == <<"int", n>>

F(n) == <<"float", n>>

NaN == <<"nan", 0>>

T(words) == <<"text", words>>

IsNa(v) == v[1] = "nan"

IsNum(v) == v[1] \in {"int", "float"}

\* Equality of two cells as pandas' duplicated() sees it (missing values equal).
ValEq(a, b) == a[1] = b[1] /\ a[2] = b[2]

Range(s) == {s[i] : i \in DOMAIN s}

Col(b) == <<b, "">>

NoFrame == [columns |-> <<>>, rows |-> <<>>]

NoVectorizer == [vocabulary |-> <<>>, df |-> <<>>, n |-> 0]

\* The rows of f at the positions in keep, in their order (boolean-mask selection:
\* every row keeps its index label).
KeepRows(f, keep) ==
    LET RECURSIVE Go(_)
        Go(i) == IF i > Len(f.rows) THEN <<>>
                 ELSE (IF i \in keep THEN <<f.rows[i]>> ELSE <<>>) \o Go(i + 1)
    IN  [f EXCEPT !.rows = Go(1)]

ColumnValues(f, c) == [i \in 1..Len(f.rows) |-> f.rows[i].cells[c]]

\* data[c] = values (positional): writes column c of the object in place.
SetColumn(f, c, values) ==
    [f EXCEPT !.rows = [i \in 1..Len(f.rows) |->
        [f.rows[i] EXCEPT !.cells = [@ EXCEPT ![c] = values[i]]]]]

----------------------------------------------------------------------------
(* clean_data *)

dropna(f) ==
    KeepRows(f, {i \in 1..Len(f.rows) :
                    \A c \in Range(f.columns) : ~IsNa(f.rows[i].cells[c])})

RowEq(f, i, j) ==
    \A c \in Range(f.columns) : ValEq(f.rows[i].cells[c], f.rows[j].cells[c])

\* keep="first": a row goes when an earlier row equals it in every column.
drop_duplicates(f) ==
    KeepRows(f, {i \in 1..Len(f.rows) : ~\E j \in 1..(i - 1) : RowEq(f, i, j)})

\* DataFrame.drop(columns=cols, errors="ignore")
drop(f, cols) ==
    LET kept == SelectSeq(f.columns, LAMBDA c : c \notin cols)
    IN  [columns |-> kept,
         rows |-> [i \in 1..Len(f.rows) |->
                    [label |-> f.rows[i].label,
                     cells |-> [c \in Range(kept) |-> f.rows[i].cells[c]]]]]

clean_data(f) ==
    drop(drop_duplicates(dropna(f)), {Col("salary"), Col("salary_currency")})

----------------------------------------------------------------------------
(* process_categoricals *)

\* Python's order of the strings the model uses (code-point order).
SortOrder == <<"CT", "FL", "FT", "PT", "analyst", "data", "engineer", "scientist">>

Sorted(set) == SelectSeq(SortOrder, LAMBDA s : s \in set)

CompanySizeMap == [S |-> 1, M |-> 2, L |-> 3]

ExperienceLevelMap == [EN |-> 1, MI |-> 2, SE |-> 3, EX |-> 4]

InMap(v, dict) == v[1] = "str" /\ v[2] \in DOMAIN dict

\* Series.map(dict): a value that is no key of dict becomes NaN, without an error;
\* a column holding a NaN is a float column.
MapValues(values, dict) ==
    LET allMapped == \A i \in DOMAIN values : InMap(values[i], dict)
    IN  [i \in DOMAIN values |->
            IF InMap(values[i], dict)
            THEN (IF allMapped THEN N(dict[values[i][2]]) ELSE F(dict[values[i][2]]))
            ELSE NaN]

\* Mutant: drop_first=False, every level keeps its column.
DummyLevelsKeepAll(levels) == levels

\* Mutant: the last level is dropped instead of the first.
DummyLevelsDropLast(levels) ==
    IF levels = <<>> THEN <<>> ELSE SubSeq(levels, 1, Len(levels) - 1)

\* The levels get_dummies keeps: the sorted distinct values, the first dropped.
DummyLevels(levels) == IF levels = <<>> THEN <<>> ELSE Tail(levels)

\* pd.get_dummies(f, columns=[c], prefix=c[1], drop_first=True, dtype=int): a new frame.
get_dummies(f, c) ==
    LET present == {v[2] : v \in {w \in Range(ColumnValues(f, c)) : w[1] = "str"}}
        levels == DummyLevels(Sorted(present))
        others == SelectSeq(f.columns, LAMBDA k : k # c)
        dummies == [j \in 1..Len(levels) |-> <<c[1], levels[j]>>]
        cols == others \o dummies
    IN  [columns |-> cols,
         rows |-> [i \in 1..Len(f.rows) |->
                    [label |-> f.rows[i].label,
                     cells |-> [k \in Range(cols) |->
                         IF k \in Range(others) THEN f.rows[i].cells[k]
                         ELSE IF ValEq(f.rows[i].cells[c], S(k[2])) THEN N(1) ELSE N(0)]]]]

\* written: the object `data` named on entry, after the two column assignments;
\* returned: the new frame get_dummies builds from it.
process_categoricals(f) ==
    LET sized == SetColumn(f, Col("company_size"),
                     MapValues(ColumnValues(f, Col("company_size")), CompanySizeMap))
        levelled == SetColumn(sized, Col("experience_level"),
                     MapValues(ColumnValues(sized, Col("experience_level")),
                               ExperienceLevelMap))
    IN  [written |-> levelled, returned |-> get_dummies(levelled, Col("employment_type"))]

----------------------------------------------------------------------------
(* preprocess_country *)

\* DataFrame.set_index(c): a new frame whose labels are column c's values.
set_index(f, c) ==
    LET kept == SelectSeq(f.columns, LAMBDA k : k # c)
    IN  [columns |-> kept,
         rows |-> [i \in 1..Len(f.rows) |->
                    [label |-> f.rows[i].cells[c],
                     cells |-> [k \in Range(kept) |-> f.rows[i].cells[k]]]]]

\* str(x["work_year"]) for the years of the model.
Str(v) ==
    CASE v = N(2022) -> "2022" [] v = N(2023) -> "2023" [] v = N(2024) -> "2024"
      [] v = F(2022) -> "2022.0" [] v = F(2023) -> "2023.0" [] v = F(2024) -> "2024.0"
      [] OTHER -> "nan"

\* Whether gdp.loc[code, year] finds a cell: the row label and the column both exist.
HasCell(gdp, code, year) ==
    /\ \E i \in 1..Len(gdp.rows) : ValEq(gdp.rows[i].label, code)
    /\ Col(year) \in Range(gdp.columns)

\* gdp.loc[code, year], where HasCell holds (labels are unique).
Loc(gdp, code, year) ==
    LET i == CHOOSE k \in 1..Len(gdp.rows) : ValEq(gdp.rows[k].label, code)
    IN  gdp.rows[i].cells[Col(year)]

\* Mutant: every record is looked up with the first record's work_year.
LookupColumnFirstYear(f, gdp, c) ==
    [i \in 1..Len(f.rows) |->
        IF HasCell(gdp, f.rows[i].cells[c], Str(f.rows[1].cells[Col("work_year")]))
        THEN Loc(gdp, f.rows[i].cells[c], Str(f.rows[1].cells[Col("work_year")]))
        ELSE NaN]

\* data.apply(lambda x: gdp.loc[x[c], str(x["work_year"])], axis=1)
LookupColumn(f, gdp, c) ==
    [i \in 1..Len(f.rows) |->
        Loc(gdp, f.rows[i].cells[c], Str(f.rows[i].cells[Col("work_year")]))]

CanLookup(f, gdp, c) ==
    \A i \in 1..Len(f.rows) :
        HasCell(gdp, f.rows[i].cells[c], Str(f.rows[i].cells[Col("work_year")]))

\* Mutant: a lookup that finds no cell yields NaN instead of raising.
preprocess_country_lenient(f, gdp_data) ==
    LET gdp == set_index(gdp_data, Col("alpha_2"))
        Found(c) == [i \in 1..Len(f.rows) |->
            IF HasCell(gdp, f.rows[i].cells[c], Str(f.rows[i].cells[Col("work_year")]))
            THEN Loc(gdp, f.rows[i].cells[c], Str(f.rows[i].cells[Col("work_year")]))
            ELSE NaN]
    IN  [frame |-> SetColumn(SetColumn(f, Col("company_location"),
                                       Found(Col("company_location"))),
                             Col("employee_residence"), Found(Col("employee_residence"))),
         raised |-> "none"]

\* frame: the object `data` names, as the function leaves it; raised: the exception.
\* A lookup of a missing label or column raises KeyError out of apply, before the
\* assignment of that column.
preprocess_country(f, gdp_data) ==
    LET gdp == set_index(gdp_data, Col("alpha_2"))
        located == SetColumn(f, Col("company_location"),
                             LookupColumn(f, gdp, Col("company_location")))
    IN  IF ~CanLookup(f, gdp, Col("company_location"))
        THEN [frame |-> f, raised |-> "KeyError"]
        ELSE IF ~CanLookup(located, gdp, Col("employee_residence"))
        THEN [frame |-> located, raised |-> "KeyError"]
        ELSE [frame |-> SetColumn(located, Col("employee_residence"),
                             LookupColumn(located, gdp, Col("employee_residence"))),
              raised |-> "none"]

----------------------------------------------------------------------------
(* preprocess_numbers *)

\* Series.astype(int): a float holding a whole number becomes that int; NaN cannot be cast.
CanCastInt(values) == \A i \in DOMAIN values : IsNum(values[i])

AsTypeInt(values) == [i \in DOMAIN values |-> N(values[i][2])]

\* a.argsort(): the positions of a in ascending order of their values.  Positions of
\* equal values come in position order; winsorize's result does not depend on it.
argsort(a) ==
    LET rank == [i \in DOMAIN a |->
                    1 + Cardinality({j \in DOMAIN a :
                                        a[j] < a[i] \/ (a[j] = a[i] /\ j < i)})]
    IN  [k \in DOMAIN a |-> CHOOSE i \in DOMAIN a : rank[i] = k]

\* Mutant: 0.01 * n is rounded up instead of truncated.
LowIdxRoundedUp(n) == (n + 99) \div 100

\* The 0-based position in the sorted array of the lower clamp value: int(0.01 * n).
LowIdx(n) == n \div 100

\* upidx = n - int(0.01 * n); the upper clamp value sits at 0-based position upidx - 1.
UpIdx(n) == n - (n \div 100)

\* scipy.stats.mstats.winsorize(a, limits=[0.01, 0.01]) on the numbers a:
\*   a[idx[:lowidx]] = a[idx[lowidx]];  a[idx[upidx:]] = a[idx[upidx - 1]]
winsorize(a) ==
    LET n == Len(a)
        idx == argsort(a)
        lowidx == LowIdx(n)
        upidx == UpIdx(n)
        low == {idx[k] : k \in 1..lowidx}
        lowered == [i \in 1..n |-> IF i \in low THEN a[idx[lowidx + 1]] ELSE a[i]]
        high == {idx[k] : k \in (upidx + 1)..n}
    IN  [i \in 1..n |-> IF i \in high THEN lowered[idx[upidx]] ELSE lowered[i]]

\* a[idx[lowidx]] exists: on an empty array idx[0] raises IndexError.
CanWinsorize(a) == LowIdx(Len(a)) < Len(a)

Numbers(values) == [i \in DOMAIN values |-> values[i][2]]

\* The winsorized column: every value keeps the column's type.
WinsorizeColumn(values) ==
    LET w == winsorize(Numbers(values))
    IN  [i \in DOMAIN values |-> <<values[i][1], w[i]>>]

preprocess_numbers(f) ==
    IF ~CanCastInt(ColumnValues(f, Col("work_year")))
    THEN [frame |-> f, raised |-> "ValueError"]
    ELSE LET cast == SetColumn(f, Col("work_year"),
                               AsTypeInt(ColumnValues(f, Col("work_year"))))
         IN  IF ~CanWinsorize(ColumnValues(cast, Col("salary_in_usd")))
             THEN [frame |-> cast, raised |-> "IndexError"]
             ELSE [frame |-> SetColumn(cast, Col("salary_in_usd"),
                                WinsorizeColumn(ColumnValues(cast, Col("salary_in_usd")))),
                   raised |-> "none"]

----------------------------------------------------------------------------
(* TfidfVectorizer and preprocess_title *)

\* str.lower() on the words of the model.
Lower(w) ==
    CASE w = "Data" -> "data" [] w = "Scientist" -> "scientist"
      [] w = "Engineer" -> "engineer" [] w = "Analyst" -> "analyst" [] w = "R" -> "r"
      [] OTHER -> w

\* The analyzer: lowercase, then the tokens of two or more word characters.
Tokens(title) ==
    LET lowered == [i \in DOMAIN title[2] |-> Lower(title[2][i])]
    IN  SelectSeq(lowered, LAMBDA w : Len(w) >= 2)

Count(seq, x) == Cardinality({i \in DOMAIN seq : seq[i] = x})

\* TfidfVectorizer().fit(titles): the sorted vocabulary, each term's document
\* frequency and the number of documents.  An empty vocabulary raises ValueError.
Fit(titles) ==
    LET terms == UNION {Range(Tokens(titles[i])) : i \in DOMAIN titles}
        vocabulary == Sorted(terms)
    IN  [vocabulary |-> vocabulary,
         df |-> [j \in 1..Len(vocabulary) |->
                    Cardinality({i \in DOMAIN titles :
                                    vocabulary[j] \in Range(Tokens(titles[i]))})],
         n |-> Len(titles)]

\* The weight of vocabulary term j in a title: 0.0 when the title lacks the term, else
\* the positive number tf * (ln((1 + n) / (1 + df)) + 1) / norm, kept as <<tf, df, n>>.
Weight(v, title, j) ==
    LET tf == Count(Tokens(title), v.vocabulary[j])
    IN  IF tf = 0 THEN F(0) ELSE <<"tfidf", <<tf, v.df[j], v.n>>>>

\* pd.DataFrame(vectorizer.transform(titles).toarray(), columns=feature names)
\* .add_prefix("job_title_"): a new frame with the default index 0..m-1.
TitleVector(v, titles) ==
    LET cols == [j \in 1..Len(v.vocabulary) |-> <<"job_title", v.vocabulary[j]>>]
    IN  [columns |-> cols,
         rows |-> [i \in 1..Len(titles) |->
                    [label |-> i - 1,
                     cells |-> [k \in Range(cols) |->
                         Weight(v, titles[i],
                                CHOOSE j \in 1..Len(cols) : cols[j] = k)]]]]

Labels(f) == [i \in 1..Len(f.rows) |-> f.rows[i].label]

\* The row labels of pd.concat([a, b], axis=1): the two indexes when equal, else
\* their union, here a's labels followed by those only b has (the order of a union
\* differs between pandas versions; no property below depends on it).
JoinLabels(a, b) ==
    IF Labels(a) = Labels(b) THEN Labels(a)
    ELSE Labels(a) \o SelectSeq(Labels(b), LAMBDA l : l \notin Range(Labels(a)))

\* The cells of the row of f labelled l; NaN in every column when f has no such row.
CellsAt(f, l) ==
    IF l \in Range(Labels(f))
    THEN f.rows[CHOOSE i \in 1..Len(f.rows) : f.rows[i].label = l].cells
    ELSE [c \in Range(f.columns) |-> NaN]

\* pd.concat([a, b], axis=1): rows are matched by index label, not by position.
concat_columns(a, b) ==
    LET labels == JoinLabels(a, b)
    IN  [columns |-> a.columns \o b.columns,
         rows |-> [i \in 1..Len(labels) |->
                    [label |-> labels[i],
                     cells |-> [c \in Range(a.columns) \cup Range(b.columns) |->
                         IF c \in Range(a.columns) THEN CellsAt(a, labels[i])[c]
                         ELSE CellsAt(b, labels[i])[c]]]]]

preprocess_title(f, v) ==
    LET job_title_vector == TitleVector(v, ColumnValues(f, Col("job_title")))
    IN  concat_columns(drop(f, {Col("job_title")}), job_title_vector)

----------------------------------------------------------------------------
(* The callers' inputs *)

BaseColumns ==
    <<Col("work_year"), Col("experience_level"), Col("employment_type"),
      Col("job_title"), Col("salary"), Col("salary_currency"), Col("salary_in_usd"),
      Col("employee_residence"), Col("company_location"), Col("company_size")>>

NumericColumns == {Col("work_year"), Col("salary"), Col("salary_in_usd")}

Record(wy, el, et, jt, sal, cur, usd, res, loc, size) ==
    (Col("work_year") :> wy) @@ (Col("experience_level") :> el)
    @@ (Col("employment_type") :> et) @@ (Col("job_title") :> jt)
    @@ (Col("salary") :> sal) @@ (Col("salary_currency") :> cur)
    @@ (Col("salary_in_usd") :> usd) @@ (Col("employee_residence") :> res)
    @@ (Col("company_location") :> loc) @@ (Col("company_size") :> size)

\* The records a Dataset is drawn from.  1: the record of the concrete scenario;
\* 2: record 1 with another salary and currency; 3: another posting; 4: a missing
\* salary_in_usd; 5: an unknown company_size; 6: a residence the reference table
\* lacks; 7: a year the reference table lacks; 8: a missing work_year; 9: an unknown
\* experience_level and a one-letter word in the title.
Records ==
    << Record(N(2023), S("SE"), S("FT"), T(<<"Data", "Scientist">>), N(120000), S("USD"),
              N(120000), S("US"), S("US"), S("M")),
       Record(N(2023), S("SE"), S("FT"), T(<<"Data", "Scientist">>), N(110000), S("EUR"),
              N(120000), S("US"), S("US"), S("M")),
       Record(N(2022), S("EN"), S("PT"), T(<<"Data", "Engineer">>), N(90000), S("USD"),
              N(90000), S("DE"), S("US"), S("S")),
       Record(N(2023), S("MI"), S("FT"), T(<<"Data", "Analyst">>), N(70000), S("USD"),
              NaN, S("US"), S("DE"), S("L")),
       Record(N(2022), S("SE"), S("CT"), T(<<"Data", "Scientist">>), N(100000), S("USD"),
              N(100000), S("US"), S("US"), S("XL")),
       Record(N(2023), S("EX"), S("FT"), T(<<"Data", "Engineer">>), N(150000), S("USD"),
              N(150000), S("XX"), S("US"), S("L")),
       Record(N(2024), S("MI"), S("PT"), T(<<"Data", "Analyst">>), N(80000), S("USD"),
              N(80000), S("DE"), S("DE"), S("M")),
       Record(NaN, S("EN"), S("FL"), T(<<"Data", "Analyst">>), N(60000), S("USD"),
              N(60000), S("US"), S("US"), S("S")),
       Record(N(2023), S("JR"), S("FL"), T(<<"R">>), N(65000), S("USD"),
              N(65000), S("DE"), S("US"), S("M")) >>

\* A DataFrame of the chosen records with the default index 0..n-1.  A numeric column
\* that holds a missing value is a float column.
MakeFrame(pick, withSalary) ==
    LET cols == IF withSalary THEN BaseColumns
                ELSE SelectSeq(BaseColumns,
                               LAMBDA c : c \notin {Col("salary"), Col("salary_currency")})
        floats == {c \in NumericColumns : \E i \in DOMAIN pick : IsNa(Records[pick[i]][c])}
        Cell(v, c) == IF c \in floats /\ v[1] = "int" THEN F(v[2]) ELSE v
    IN  [columns |-> cols,
         rows |-> [i \in DOMAIN pick |->
                    [label |-> i - 1,
                     cells |-> [c \in Range(cols) |-> Cell(Records[pick[i]][c], c)]]]]

GdpRow(label, code, y2022, y2023) ==
    [label |-> label,
     cells |-> (Col("alpha_2") :> S(code)) @@ (Col("2022") :> y2022) @@ (Col("2023") :> y2023)]

GdpColumns == <<Col("alpha_2"), Col("2022"), Col("2023")>>

\* The reference tables: one complete, one with a missing cell.
Tables ==
    { [columns |-> GdpColumns,
       rows |-> <<GdpRow(0, "US", N(24000), N(25000)), GdpRow(1, "DE", N(20000), N(21000))>>],
      [columns |-> GdpColumns,
       rows |-> <<GdpRow(0, "US", F(24000), N(25000)), GdpRow(1, "DE", NaN, N(21000))>>] }

----------------------------------------------------------------------------
(* preprocess_data *)

Init ==
    \E n \in 0..MaxRows : \E pick \in [1..n -> 1..Len(Records)] :
    \E withSalary \in BOOLEAN : \E gdp \in Tables :
        /\ callerData = MakeFrame(pick, withSalary)
        /\ callerGdp = gdp
        /\ local = NoFrame
        /\ dataRef = "caller"
        /\ vectorizer = NoVectorizer
        /\ result = NoFrame
        /\ pc = "clean"
        /\ err = "none"
        /\ orig = callerData
        /\ origGdp = gdp
        /\ cleaned = NoFrame

\* The frame the local name `data` is bound to.
Data == IF dataRef = "caller" THEN callerData ELSE local

\* An assignment into the object `data` is bound to.
WriteData(frame) ==
    IF dataRef = "caller"
    THEN callerData' = frame /\ UNCHANGED local
    ELSE local' = frame /\ UNCHANGED callerData

\* Mutant: clean_data works with inplace=True and returns the frame it was given.
CleanResultObjectInPlace == "caller"

\* The object clean_data returns: dropna, drop_duplicates and drop each return a new
\* DataFrame, never the one they were called on.
CleanResultObject == "local"

\* data = clean_data(data)
CleanData ==
    /\ pc = "clean"
    /\ IF CleanResultObject = "caller"
       THEN callerData' = clean_data(Data) /\ UNCHANGED local
       ELSE local' = clean_data(Data) /\ UNCHANGED callerData
    /\ dataRef' = CleanResultObject
    /\ cleaned' = clean_data(Data)
    /\ pc' = "categoricals"
    /\ UNCHANGED <<callerGdp, vectorizer, result, err, orig, origGdp>>

\* data = process_categoricals(data): two assignments into the object passed in, then
\* the name is rebound to the frame get_dummies returns.
ProcessCategoricals ==
    /\ pc = "categoricals"
    /\ LET r == process_categoricals(Data)
       IN  /\ callerData' = IF dataRef = "caller" THEN r.written ELSE callerData
           /\ local' = r.returned
    /\ dataRef' = "local"
    /\ pc' = "country"
    /\ UNCHANGED <<callerGdp, vectorizer, result, err, orig, origGdp, cleaned>>

\* data = preprocess_country(data, gdp_data)
PreprocessCountry ==
    /\ pc = "country"
    /\ LET r == preprocess_country(Data, callerGdp)
       IN  /\ WriteData(r.frame)
           /\ err' = r.raised
           /\ pc' = IF r.raised = "none" THEN "numbers" ELSE "failed"
    /\ UNCHANGED <<callerGdp, dataRef, vectorizer, result, orig, origGdp, cleaned>>

\* data = preprocess_numbers(data)
PreprocessNumbers ==
    /\ pc = "numbers"
    /\ LET r == preprocess_numbers(Data)
       IN  /\ WriteData(r.frame)
           /\ err' = r.raised
           /\ pc' = IF r.raised = "none" THEN "fit" ELSE "failed"
    /\ UNCHANGED <<callerGdp, dataRef, vectorizer, result, orig, origGdp, cleaned>>

\* vectorizer = TfidfVectorizer(); vectorizer.fit(data["job_title"])
FitVectorizer ==
    /\ pc = "fit"
    /\ LET v == Fit(ColumnValues(Data, Col("job_title")))
       IN  IF v.vocabulary = <<>>
           THEN /\ err' = "ValueError"
                /\ pc' = "failed"
                /\ UNCHANGED vectorizer
           ELSE /\ vectorizer' = v
                /\ pc' = "title"
                /\ UNCHANGED err
    /\ UNCHANGED <<callerData, callerGdp, local, dataRef, result, orig, origGdp, cleaned>>

\* data = preprocess_title(data, vectorizer); return data
PreprocessTitle ==
    /\ pc = "title"
    /\ local' = preprocess_title(Data, vectorizer)
    /\ dataRef' = "local"
    /\ result' = local'
    /\ pc' = "done"
    /\ UNCHANGED <<callerData, callerGdp, vectorizer, err, orig, origGdp, cleaned>>

Next ==
    \/ CleanData
    \/ ProcessCategoricals
    \/ PreprocessCountry
    \/ PreprocessNumbers
    \/ FitVectorizer
    \/ PreprocessTitle

Spec == Init /\ [][Next]_vars

----------------------------------------------------------------------------
(* preprocess_numbers called on its own, on Datasets large enough to be clamped *)

WinsorSizes == {1, 2, 50, 99, 100, 101, 150, 199, 200, MaxWinsorLen}

WinsorModuli == {3, 97, 211}

\* n records whose salaries are the multiples of stride, reduced modulo m.
SalaryFrame(n, stride, m) ==
    [columns |-> <<Col("work_year"), Col("salary_in_usd")>>,
     rows |-> [i \in 1..n |->
                [label |-> i - 1,
                 cells |-> (Col("work_year") :> N(2023))
                           @@ (Col("salary_in_usd") :> N(50000 + 1000 * ((i * stride) % m)))]]]

InitNumbers ==
    \E n \in WinsorSizes : \E stride \in 1..MaxStride : \E m \in WinsorModuli :
        /\ callerData = NoFrame
        /\ callerGdp = NoFrame
        /\ local = SalaryFrame(n, stride, m)
        /\ dataRef = "local"
        /\ vectorizer = NoVectorizer
        /\ result = NoFrame
        /\ pc = "numbers"
        /\ err = "none"
        /\ orig = NoFrame
        /\ origGdp = NoFrame
        /\ cleaned = local

NextNumbers == PreprocessNumbers

SpecNumbers == InitNumbers /\ [][NextNumbers]_vars

----------------------------------------------------------------------------
(* Properties *)

Cleaned == pc # "clean"

RowCount(f) == Len(f.rows)

NoMissing(f) ==
    \A i \in 1..RowCount(f) : \A c \in Range(f.columns) : f.rows[i].cells[c] # NaN

NoDuplicates(f) ==
    \A i, j \in 1..RowCount(f) : i # j => f.rows[i].cells # f.rows[j].cells

\* C1: the result of clean_data has no record with a missing value, no two records
\* equal in all fields, and at most as many records as the input.
C1_CleanOutput ==
    Cleaned => /\ NoMissing(cleaned)
               /\ NoDuplicates(cleaned)
               /\ RowCount(cleaned) <= RowCount(orig)

\* C2: at the return of preprocess_data there is exactly one row per record that
\* survived cleaning, and every row's job_title_<term> values are the weights of the
\* title of the cleaned record with that row's label.
C2_TitleWeightsOfOwnRecord ==
    pc = "done" =>
        /\ RowCount(result) = RowCount(cleaned)
        /\ \A i \in 1..RowCount(result) :
              \E k \in 1..RowCount(cleaned) :
                /\ cleaned.rows[k].label = result.rows[i].label
                /\ \A j \in 1..Len(vectorizer.vocabulary) :
                      result.rows[i].cells[<<"job_title", vectorizer.vocabulary[j]>>]
                        = Weight(vectorizer, cleaned.rows[k].cells[Col("job_title")], j)

Unmapped(f) ==
    \E i \in 1..RowCount(f) :
        \/ ~InMap(f.rows[i].cells[Col("company_size")], CompanySizeMap)
        \/ ~InMap(f.rows[i].cells[Col("experience_level")], ExperienceLevelMap)

\* C3: when a cleaned record holds a company_size or experience_level outside the
\* maps, process_categoricals does not return normally (the call ends in an error),
\* and no Dataset with a missing encoded value is returned.
C3_UnmappedCategoryRaises ==
    (Cleaned /\ Unmapped(cleaned)) =>
        /\ pc \in {"categoricals", "failed"}
        /\ \A i \in 1..RowCount(result) :
              /\ result.rows[i].cells[Col("company_size")] # NaN
              /\ result.rows[i].cells[Col("experience_level")] # NaN

SingleFullTime ==
    /\ RowCount(orig) = 1
    /\ orig.rows[1].cells[Col("employment_type")] = S("FT")

EmploymentColumns(f) == {c \in Range(f.columns) : c[1] = "employment_type"}

\* C4 as claimed: the single-record Dataset with employment_type "FT", run through
\* preprocess_data, yields an employment_type_FT column.
C4_SingleRecordHasFTColumn ==
    (pc = "done" /\ SingleFullTime) => <<"employment_type", "FT">> \in Range(result.columns)

\* C4 as amended: the single-record Dataset with employment_type "FT", run through
\* preprocess_data, yields no employment_type_FT column, and no other
\* employment_type column: FT is the only category, and the one dropped.
C4_SingleRecordHasNoFTColumn ==
    (pc = "done" /\ SingleFullTime) => EmploymentColumns(result) = {}

C4_Witness == pc = "done" /\ SingleFullTime

Position(s) == CHOOSE i \in 1..Len(SortOrder) : SortOrder[i] = s

EmploymentTypes(f) ==
    {f.rows[i].cells[Col("employment_type")][2] : i \in 1..RowCount(f)}

\* C5: when process_categoricals has returned for a Dataset with k >= 1 distinct
\* employment_type values, the frame has exactly k-1 employment_type_<value> columns,
\* one for every value except the first in sort order, and every record has 1 in the
\* column of its own value and 0 in the others.
C5_DummyColumns ==
    (pc = "country" /\ RowCount(cleaned) >= 1) =>
        LET types == EmploymentTypes(cleaned)
            first == CHOOSE v \in types : \A w \in types : Position(v) <= Position(w)
        IN  /\ Cardinality(EmploymentColumns(local)) = Cardinality(types) - 1
            /\ EmploymentColumns(local) = {<<"employment_type", v>> : v \in types \ {first}}
            /\ RowCount(local) = RowCount(cleaned)
            /\ \A i \in 1..RowCount(local) : \A c \in EmploymentColumns(local) :
                  local.rows[i].cells[c] =
                      IF cleaned.rows[i].cells[Col("employment_type")] = S(c[2])
                      THEN N(1) ELSE N(0)

C5_Witness ==
    pc = "country" /\ Cardinality(EmploymentTypes(cleaned)) = 3

\* The value the caller's reference table holds for a country code and a work_year.
TableCells(code, year) ==
    {origGdp.rows[r].cells[Col(Str(year))] :
        r \in {q \in 1..RowCount(origGdp) : origGdp.rows[q].cells[Col("alpha_2")] = code}}

\* C6: when preprocess_country has returned, every record's company_location and
\* employee_residence are the reference table's values for the record's original
\* country codes and the record's own work_year.
C6_CountrySubstituted ==
    pc = "numbers" =>
        /\ RowCount(local) = RowCount(cleaned)
        /\ \A i \in 1..RowCount(local) : \A c \in {Col("company_location"), Col("employee_residence")} :
              TableCells(cleaned.rows[i].cells[c], cleaned.rows[i].cells[Col("work_year")])
                = {local.rows[i].cells[c]}

C6_Witness ==
    /\ pc = "numbers"
    /\ \E i, j \in 1..RowCount(cleaned) :
          /\ cleaned.rows[i].cells[Col("work_year")] # cleaned.rows[j].cells[Col("work_year")]
          /\ cleaned.rows[i].cells[Col("company_location")]
                # cleaned.rows[i].cells[Col("employee_residence")]

\* Whether some cleaned record has a (country code, work_year) pair, for either
\* country column, that the caller's reference table does not hold.
AbsentPair ==
    \E i \in 1..RowCount(cleaned) : \E c \in {Col("company_location"), Col("employee_residence")} :
        \/ \A r \in 1..RowCount(origGdp) :
              origGdp.rows[r].cells[Col("alpha_2")] # cleaned.rows[i].cells[c]
        \/ Col(Str(cleaned.rows[i].cells[Col("work_year")])) \notin Range(origGdp.columns)

\* C7: when a cleaned record has a pair the reference table lacks, preprocess_data
\* does not get past preprocess_country: it ends with KeyError and returns nothing.
C7_AbsentPairAborts ==
    (AbsentPair /\ pc \notin {"clean", "categoricals", "country"}) =>
        /\ pc = "failed"
        /\ err = "KeyError"
        /\ result = NoFrame

C7_Witness == AbsentPair /\ pc = "failed" /\ err = "KeyError"

Salaries(f) == Numbers(ColumnValues(f, Col("salary_in_usd")))

\* The value with k values of a below it in ascending order.
ValueAbove(a, k) ==
    CHOOSE v \in Range(a) :
        /\ Cardinality({i \in DOMAIN a : a[i] < v}) <= k
        /\ Cardinality({i \in DOMAIN a : a[i] <= v}) > k

\* The value with k values of a above it in ascending order.
ValueBelow(a, k) ==
    CHOOSE v \in Range(a) :
        /\ Cardinality({i \in DOMAIN a : a[i] > v}) <= k
        /\ Cardinality({i \in DOMAIN a : a[i] >= v}) > k

\* C8: when preprocess_numbers has returned for n >= 1 records, with lo and hi the
\* values int(0.01 * n) places from the bottom and from the top of the sorted salaries
\* before the call: every salary below lo is lo, every salary above hi is hi, every
\* other salary is as before, and below 100 records no salary is changed.
C8_Winsorized ==
    (pc = "fit" /\ RowCount(cleaned) >= 1) =>
        LET pre == Salaries(cleaned)
            post == Salaries(local)
            lo == ValueAbove(pre, Len(pre) \div 100)
            hi == ValueBelow(pre, Len(pre) \div 100)
        IN  /\ Len(post) = Len(pre)
            /\ \A i \in DOMAIN pre :
                  post[i] = IF pre[i] < lo THEN lo ELSE IF pre[i] > hi THEN hi ELSE pre[i]
            /\ Len(pre) < 100 => post = pre

C8_Witness ==
    /\ pc = "fit"
    /\ RowCount(cleaned) >= 100
    /\ \E i, j \in 1..RowCount(cleaned) :
          /\ Salaries(local)[i] > Salaries(cleaned)[i]
          /\ Salaries(local)[j] < Salaries(cleaned)[j]

\* C9: clean_data applied to its own result returns that result.
C9_CleanIdempotent ==
    Cleaned => clean_data(cleaned) = cleaned

\* C10: at every point of a call of preprocess_data, and after it returned or failed,
\* the caller's Dataset and the caller's reference table are as they were passed in.
C10_CallerInputsUnchanged ==
    /\ callerData = orig
    /\ callerGdp = origGdp

C10_Witness ==
    /\ pc = "done"
    /\ RowCount(result) >= 1
    /\ RowCount(cleaned) < RowCount(orig)

====
